---- MODULE Spec2Model ----
(***************************************************************************)
(* Model of src/output/chatbot_stealth_agent.py: the round-robin scheduler *)
(* run_evaluation, one call of StealthChatbotAgent.query_chatbot at the    *)
(* granularity of its awaited page operations, and the completion monitor  *)
(* StealthChatbotAgent._wait_for_response with explicit time.              *)
(*                                                                         *)
(* Texts are TLA+ strings (Len, SubSeq and \o act on them character by     *)
(* character).  Times of the monitor are integers counting tenths of a     *)
(* second.                                                                 *)
(***************************************************************************)
EXTENDS Integers, Sequences, FiniteSets, TLC

VARIABLES
    rows,          \* the loaded CSV rows (input columns only)
    chatbots,      \* the configured target order
    prompt_sent,   \* row["prompt_sent"], per row index ("" until built)
    cells,         \* row[f"..._{chatbot}"] result columns, per row and target
    pc,            \* position of run_evaluation
    idx,           \* row index of the primary loop (1-based)
    chatbot_idx,   \* target index of the primary loop (1-based)
    retry_round,   \* retry_round of the retry loop
    retry_needed,  \* the list built at the top of a retry round
    retry_idx,     \* position in retry_needed (1-based)
    full_prompt,   \* local variable full_prompt of run_evaluation
    q,             \* the frame of the running query_chatbot call
    open_pages,    \* pages of the browser context that are open
    pages_created, \* number of pages created so far (page identities)
    emitted,       \* log of the calls of query_chatbot made by run_evaluation
    cooldowns,     \* number of 30 s retry cooldowns slept so far
    faults,        \* environment deviations used so far
    challenged,    \* the targets that are showing a challenge to this client
    saved,         \* evaluation_consolidated.csv as save_results last left it
    w,             \* the frame of the running _wait_for_response call
    cap,           \* the frame of a _capture_response_screenshots call
    stats,         \* the counters of run_evaluation
    slept,         \* the sleeps of run_evaluation since its last query
    sv             \* the frame of a save_results call

vars == <<rows, chatbots, prompt_sent, cells, pc, idx, chatbot_idx, retry_round,
          retry_needed, retry_idx, full_prompt, q, open_pages, pages_created,
          emitted, cooldowns, faults, challenged, saved, w, cap, stats, slept, sv>>

schedVars == <<rows, chatbots, prompt_sent, cells, pc, idx, chatbot_idx,
               retry_round, retry_needed, retry_idx, full_prompt, q, open_pages,
               pages_created, emitted, cooldowns, faults, challenged,
               saved, stats, slept, sv>>

(***************************************************************************)
(* Bounds of the model.                                                    *)
(***************************************************************************)
NumRows == 2        \* rows loaded from the CSV
NumTargets == 2     \* length of the chatbots list
MaxRetries == 2     \* the max_retries argument of run_evaluation
FaultBudget == 2    \* environment deviations (challenge shown, exception,
                    \* missing input, timeout) injected in one run
WaitTimeout == 100  \* the timeout argument of _wait_for_response, in tenths
MaxJitter == 0      \* extra tenths a poll may take beyond the poll interval
MaxChanges == 3     \* times the extracted text changes during one wait
MaxShots == 16      \* screenshots a response may need

(***************************************************************************)
(* Text helpers: Python's str operations used by the code.                 *)
(***************************************************************************)
Min(a, b) == IF a < b THEN a ELSE b

\* s[:n]
Prefix(s, n) == SubSeq(s, 1, Min(n, Len(s)))

\* s.startswith(p)
StartsWith(s, p) == Len(s) >= Len(p) /\ SubSeq(s, 1, Len(p)) = p

\* sub in s
Contains(s, sub) ==
    \E i \in 1..(Len(s) - Len(sub) + 1) : SubSeq(s, i, i + Len(sub) - 1) = sub

IsSpace(c) == c \in {" ", "\n", "\t", "\r"}

RECURSIVE LStrip(_)
LStrip(s) == IF Len(s) > 0 /\ IsSpace(SubSeq(s, 1, 1)) THEN LStrip(Tail(s)) ELSE s

RECURSIVE RStrip(_)
RStrip(s) ==
    IF Len(s) > 0 /\ IsSpace(SubSeq(s, Len(s), Len(s)))
    THEN RStrip(SubSeq(s, 1, Len(s) - 1))
    ELSE s

\* s.strip()
Strip(s) == RStrip(LStrip(s))

\* number of characters of s equal to c
RECURSIVE CountChar(_, _)
CountChar(s, c) ==
    IF Len(s) = 0 THEN 0
    ELSE (IF SubSeq(s, 1, 1) = c THEN 1 ELSE 0) + CountChar(Tail(s), c)

\* str(b) of a Python bool
PyStr(b) == IF b THEN "True" ELSE "False"

\* ";".join(paths) if paths else ""
RECURSIVE JoinPaths(_)
JoinPaths(paths) ==
    IF Len(paths) = 0 THEN ""
    ELSE IF Len(paths) = 1 THEN paths[1]
    ELSE paths[1] \o ";" \o JoinPaths(Tail(paths))

(***************************************************************************)
(* Program constants and tables.                                           *)
(***************************************************************************)
\* keys of CHATBOT_URLS
CHATBOT_URLS == {"copilot", "chatgpt", "gemini", "claude"}

CONTEXT_TEXT_MIN == 50       \* len(context_text) > 50
CONTEXT_TEXT_MAX == 1500     \* context_text[:1500]
FULL_PROMPT_MAX == 2000      \* full_prompt[:2000]
FILL_THRESHOLD == 100        \* _human_type: len(text) > 100 uses fill()

\* the response texts query_chatbot and _wait_for_response build
ERR_UNKNOWN_CHATBOT(chatbot) == "ERROR: Unknown chatbot '" \o chatbot \o "'"
ERR_UNKNOWN_ERROR == "ERROR: Unknown error"
ERR_BOT == "ERROR: Bot detected - human verification required"
ERR_BOT_SUBMIT == "ERROR: Bot detected - CAPTCHA appeared after submission"
ERR_NO_INPUT == "ERROR: Could not find input field"
ERR_TIMEOUT == "ERROR: Timeout waiting for response"
\* f"ERROR: {str(e)}" for an exception raised while the query was at `step`:
\* the message of the navigation timeout, or that of a page that went away
ERR_EXCEPTION(step) ==
    "ERROR: " \o (IF step = "goto"
                  THEN "Page.goto: Timeout 60000ms exceeded."
                  ELSE "Target page, context or browser has been closed")

(***************************************************************************)
(* Inputs: rows of the CSV and target lists.                               *)
(***************************************************************************)
RowPool == <<
    \* a context URL: the combined prompt is short and holds line breaks
    [synthetic_prompt_id |-> "SP_000001",
     synthetic_prompt |-> "Summarize this page",
     context_url |-> "http://a.io/x",
     context_text |-> ""],
    \* no context: the combined prompt is the prompt itself
    [synthetic_prompt_id |-> "SP_000002",
     synthetic_prompt |-> "What is a state machine?",
     context_url |-> "",
     context_text |-> "too short to be used as context"],
    \* a context text of more than 50 characters: a long combined prompt
    [synthetic_prompt_id |-> "SP_000003",
     synthetic_prompt |-> "List every assumption the author makes in the text above.",
     context_url |-> "",
     context_text |-> "Model checking explores every reachable state of a finite system."]
>>

RowChoices ==
    { [i \in 1..NumRows |-> RowPool[((i + k) % Len(RowPool)) + 1]] : k \in 0..(Len(RowPool) - 1) }

KnownOrder == <<"copilot", "chatgpt", "gemini", "claude">>
UnknownTarget == "bard"
AllTargets == CHATBOT_URLS \cup {UnknownTarget}

\* the configured targets: known ones, or with an unknown one in the last place
ChatbotChoices ==
    LET known == [i \in 1..NumTargets |-> KnownOrder[i]]
    IN {known, [known EXCEPT ![NumTargets] = UnknownTarget]}

Range(f) == {f[i] : i \in DOMAIN f}

(***************************************************************************)
(* run_evaluation, lines 1202-1218: the combined prompt of a row.          *)
(***************************************************************************)
BuildContext(row) ==
    IF row.context_url # "" THEN "Reference: " \o row.context_url
    ELSE IF row.context_text # "" /\ Len(row.context_text) > CONTEXT_TEXT_MIN
         THEN Prefix(row.context_text, CONTEXT_TEXT_MAX)
         ELSE ""

BuildFullPrompt(row) ==
    LET context == BuildContext(row)
        whole == IF context # ""
                 THEN "Context: " \o context \o "\n\n---\n\n" \o row.synthetic_prompt
                 ELSE row.synthetic_prompt
    IN Prefix(whole, FULL_PROMPT_MAX)

(***************************************************************************)
(* _wait_for_response: the four return statements.  `kind` names the       *)
(* return site; text and latency are the returned tuple.                   *)
(***************************************************************************)
NoWait == [kind |-> "none", text |-> "", latency |-> 0]
\* line 975
WaitDefense == [kind |-> "DEFENSE", text |-> ERR_BOT, latency |-> 0]
\* line 1042: return current_response.strip(), final_latency
WaitComplete(text, latency) == [kind |-> "COMPLETE", text |-> Strip(text), latency |-> latency]
\* line 1070: return last_response.strip(), final_latency
WaitPartial(text, latency) == [kind |-> "PARTIAL", text |-> Strip(text), latency |-> latency]
\* line 1072
WaitTimedOut == [kind |-> "TIMED_OUT", text |-> ERR_TIMEOUT, latency |-> 0]

\* what the monitor can hand back to query_chatbot, as the scheduler sees it
AnswerPool ==
    {"Paris is the capital of France and also its largest city.",
     "ERROR 404 means that the server did not find the requested page."}
LatencyPool == {23}
WaitReturns ==
    {WaitComplete(t, l) : t \in AnswerPool, l \in LatencyPool}
    \cup {WaitPartial(t, l) : t \in AnswerPool, l \in LatencyPool}
    \cup {WaitDefense, WaitTimedOut}

\* what _capture_response_screenshots can return: one path per screenshot taken
CaptureReturns == {<<"response_part01.png">>, <<>>}

(***************************************************************************)
(* query_chatbot: the frame of one call.                                   *)
(***************************************************************************)
NoQuery ==
    [pc |-> "none", chatbot |-> "", full_prompt |-> "", prompt_id |-> "",
     page |-> 0, response_text |-> "", screenshot_paths |-> <<>>,
     was_bot_detected |-> FALSE, response_time_seconds |-> 0,
     submitted |-> FALSE, submits |-> <<>>, wait_ret |-> NoWait,
     raised_at |-> "", ret |-> <<>>, typed |-> FALSE, site |-> "",
     checks |-> <<>>]

\* `typed` tells that _human_type was called and `site` names the early
\* return taken ("check1", "no_input" or "check2"); `checks` lists the calls
\* of the detector in order.
\* agent.query_chatbot(chatbot, full_prompt, prompt_id=prompt_id)
QueryCall(chatbot, prompt, prompt_id) ==
    [NoQuery EXCEPT !.pc = "entry", !.chatbot = chatbot,
                    !.full_prompt = prompt, !.prompt_id = prompt_id]

InQuery == pc \in {"in_query", "in_retry"}

\* the variables no step of query_chatbot touches
callerVars == <<rows, chatbots, prompt_sent, cells, pc, idx, chatbot_idx,
                retry_round, retry_needed, retry_idx, full_prompt, emitted,
                cooldowns, saved, w, cap, stats, slept, sv>>

\* one environment deviation is used up
Fault == faults < FaultBudget /\ faults' = faults + 1

\* _check_for_bot_detection(page) answers b; it never raises (lines 142-248).
\* A target that starts to show a challenge is an environment deviation; a
\* challenge may stay up for later pages of the target, or go away.
Detects(b) ==
    /\ IF b /\ q.chatbot \notin challenged THEN Fault ELSE faults' = faults
    /\ challenged' = IF b THEN challenged \cup {q.chatbot}
                     ELSE challenged \ {q.chatbot}

\* the statements inside the try block, lines 805-919
TrySteps == {"goto", "check1", "find_input", "close_early", "type", "submit",
             "check2", "wait", "check3", "capture", "validate"}

\* the steps before "4. Submitting..."
BeforeSubmit == {"entry", "stealth", "goto", "check1", "find_input", "type", "submit"}

\* lines 784-795: unknown target, or page = await self.context.new_page()
QEntry ==
    /\ InQuery /\ q.pc = "entry"
    /\ IF q.chatbot \notin CHATBOT_URLS
       THEN /\ q' = [q EXCEPT !.pc = "returned",
                              !.ret = <<ERR_UNKNOWN_CHATBOT(q.chatbot), <<>>, FALSE, 0>>]
            /\ UNCHANGED <<open_pages, pages_created>>
       ELSE /\ pages_created' = pages_created + 1
            /\ open_pages' = open_pages \cup {pages_created + 1}
            /\ q' = [q EXCEPT !.pc = "stealth", !.page = pages_created + 1]
    /\ UNCHANGED <<faults, challenged, callerVars>>

\* line 795 raises: outside the try block, the exception leaves query_chatbot
QNewPageFails ==
    /\ InQuery /\ q.pc = "entry" /\ q.chatbot \in CHATBOT_URLS
    /\ Fault
    /\ q' = [q EXCEPT !.pc = "raised", !.raised_at = "new_page"]
    /\ UNCHANGED <<challenged, open_pages, pages_created, callerVars>>

\* lines 797-803: stealth applied, the locals initialised
QStealth ==
    /\ InQuery /\ q.pc = "stealth"
    /\ q' = [q EXCEPT !.pc = "goto", !.response_text = ERR_UNKNOWN_ERROR,
                      !.screenshot_paths = <<>>, !.was_bot_detected = FALSE,
                      !.response_time_seconds = 0]
    /\ UNCHANGED <<faults, challenged, open_pages, pages_created, callerVars>>

\* line 798 raises: outside the try block, the page stays open
QStealthFails ==
    /\ InQuery /\ q.pc = "stealth"
    /\ Fault
    /\ q' = [q EXCEPT !.pc = "raised", !.raised_at = "stealth"]
    /\ UNCHANGED <<challenged, open_pages, pages_created, callerVars>>

\* lines 806-811: page.goto and the human delay
QGoto ==
    /\ InQuery /\ q.pc = "goto"
    /\ q' = [q EXCEPT !.pc = "check1"]
    /\ UNCHANGED <<faults, challenged, open_pages, pages_created, callerVars>>

\* lines 813-823: the detector after navigation
QCheck1 ==
    /\ InQuery /\ q.pc = "check1"
    /\ \E b \in BOOLEAN :
         /\ Detects(b)
         /\ q' = IF b
                 THEN [q EXCEPT !.pc = "close_early", !.was_bot_detected = TRUE,
                                !.response_text = ERR_BOT, !.site = "check1",
                                !.checks = Append(@, "after_navigation")]
                 ELSE [q EXCEPT !.pc = "find_input",
                                !.checks = Append(@, "after_navigation")]
    /\ UNCHANGED <<open_pages, pages_created, callerVars>>

\* lines 819-820, 847-848, 885-886: await page.close(); return ..., [], ..., 0.0
QCloseEarly ==
    /\ InQuery /\ q.pc = "close_early"
    /\ open_pages' = open_pages \ {q.page}
    /\ q' = [q EXCEPT !.pc = "returned",
                      !.ret = <<q.response_text, <<>>, q.was_bot_detected, 0>>]
    /\ UNCHANGED <<faults, challenged, pages_created, callerVars>>

\* a missing input field is reported as such even when the detector is
\* positive
QFindInputUnchecked ==
    /\ InQuery /\ q.pc = "find_input"
    /\ \/ /\ q' = [q EXCEPT !.pc = "type"]
          /\ UNCHANGED <<faults, challenged>>
       \/ /\ Detects(TRUE)
          /\ q' = [q EXCEPT !.pc = "close_early", !.response_text = ERR_NO_INPUT,
                            !.site = "no_input",
                            !.checks = Append(@, "input_missing")]
       \/ /\ Fault
          /\ challenged' = challenged \ {q.chatbot}
          /\ q' = [q EXCEPT !.pc = "close_early", !.response_text = ERR_NO_INPUT,
                            !.site = "no_input",
                            !.checks = Append(@, "input_missing")]
    /\ UNCHANGED <<open_pages, pages_created, callerVars>>

\* lines 825-848: the input locator candidates; with none matching the
\* detector decides between a challenge and a missing input field
QFindInput ==
    /\ InQuery /\ q.pc = "find_input"
    /\ \/ /\ q' = [q EXCEPT !.pc = "type"]
          /\ UNCHANGED <<faults, challenged>>
       \/ /\ Detects(TRUE)
          /\ q' = [q EXCEPT !.pc = "close_early", !.was_bot_detected = TRUE,
                            !.response_text = ERR_BOT, !.site = "no_input",
                            !.checks = Append(@, "input_missing")]
       \/ /\ Fault
          /\ challenged' = challenged \ {q.chatbot}
          /\ q' = [q EXCEPT !.pc = "close_early", !.response_text = ERR_NO_INPUT,
                            !.site = "no_input",
                            !.checks = Append(@, "input_missing")]
    /\ UNCHANGED <<open_pages, pages_created, callerVars>>

\* _human_type, lines 750-769: the Enter key presses that typing `text` issues.
\* Above the fill threshold the text is set with element.fill(); otherwise
\* every character goes through page.keyboard.type(char), which presses the
\* key of that character, and the key of a line break is Enter.
TypedEnters(text) ==
    IF Len(text) > FILL_THRESHOLD THEN 0 ELSE CountChar(text, "\n")

\* lines 850-855: the prompt is typed into the input element
QType ==
    /\ InQuery /\ q.pc = "type"
    /\ q' = [q EXCEPT !.pc = "submit", !.typed = TRUE,
                      !.submits = q.submits
                          \o [i \in 1..TypedEnters(q.full_prompt) |-> "typed_enter"]]
    /\ UNCHANGED <<faults, challenged, open_pages, pages_created, callerVars>>

\* lines 857-876: click the submit button; press Enter if it was not clicked
QSubmit ==
    /\ InQuery /\ q.pc = "submit"
    /\ \E clicked \in BOOLEAN :
         q' = [q EXCEPT !.pc = "check2", !.submitted = clicked,
                        !.submits = Append(q.submits,
                                           IF clicked THEN "click" ELSE "enter")]
    /\ UNCHANGED <<faults, challenged, open_pages, pages_created, callerVars>>

\* a challenge seen right after submission is noted and the monitor runs
QCheck2StartsMonitor ==
    /\ InQuery /\ q.pc = "check2"
    /\ \E b \in BOOLEAN :
         /\ Detects(b)
         /\ q' = IF b
                 THEN [q EXCEPT !.pc = "wait", !.was_bot_detected = TRUE,
                                !.response_text = ERR_BOT_SUBMIT,
                                !.site = "check2",
                                !.checks = Append(@, "after_submission")]
                 ELSE [q EXCEPT !.pc = "wait",
                                !.checks = Append(@, "after_submission")]
    /\ UNCHANGED <<open_pages, pages_created, callerVars>>

\* lines 878-886: the detector right after submission
QCheck2 ==
    /\ InQuery /\ q.pc = "check2"
    /\ \E b \in BOOLEAN :
         /\ Detects(b)
         /\ q' = IF b
                 THEN [q EXCEPT !.pc = "close_early", !.was_bot_detected = TRUE,
                                !.response_text = ERR_BOT_SUBMIT,
                                !.site = "check2",
                                !.checks = Append(@, "after_submission")]
                 ELSE [q EXCEPT !.pc = "wait",
                                !.checks = Append(@, "after_submission")]
    /\ UNCHANGED <<open_pages, pages_created, callerVars>>

\* lines 888-895: the completion monitor runs and hands back (text, latency);
\* rounding to two decimals keeps a latency counted in tenths as it is.
\* The monitor returns the detector's error only when its own periodic check
\* saw a challenge (line 973); that check is due every 5 s, and no return
\* comes before 8 s of waiting (lines 969-977).
QWait ==
    /\ InQuery /\ q.pc = "wait"
    /\ \E r \in WaitReturns :
         /\ IF r.kind = "DEFENSE" THEN Detects(TRUE)
            ELSE /\ challenged' = challenged
                 /\ IF r.kind = "COMPLETE" THEN faults' = faults ELSE Fault
         /\ q' = [q EXCEPT !.pc = "check3", !.response_text = r.text,
                           !.response_time_seconds = r.latency, !.wait_ret = r,
                           !.checks = Append(@, "during_wait")]
    /\ UNCHANGED <<open_pages, pages_created, callerVars>>

\* line 984: await page.evaluate(...) has no timeout of its own and the
\* monitor looks at its clock only between polls (line 965): on a page that
\* stops answering the call never completes and nothing ends the wait
QWaitHangs ==
    /\ InQuery /\ q.pc = "wait"
    /\ Fault
    /\ q' = [q EXCEPT !.pc = "hung"]
    /\ UNCHANGED <<challenged, open_pages, pages_created, callerVars>>

\* lines 897-902: the detector after the wait
QCheck3 ==
    /\ InQuery /\ q.pc = "check3"
    /\ \E b \in BOOLEAN :
         /\ Detects(b)
         /\ q' = IF b
                 THEN [q EXCEPT !.pc = "capture", !.was_bot_detected = TRUE,
                                !.response_text =
                                    IF StartsWith(q.response_text, "ERROR")
                                    THEN ERR_BOT ELSE q.response_text,
                                !.checks = Append(@, "after_wait")]
                 ELSE [q EXCEPT !.pc = "capture",
                                !.checks = Append(@, "after_wait")]
    /\ UNCHANGED <<open_pages, pages_created, callerVars>>

\* lines 904-911: screenshots, only of a response that is not an error
QCapture ==
    /\ InQuery /\ q.pc = "capture"
    /\ IF q.prompt_id # "" /\ ~StartsWith(q.response_text, "ERROR")
       THEN \E paths \in CaptureReturns :
              /\ IF paths = <<>> THEN Fault ELSE faults' = faults
              /\ q' = [q EXCEPT !.pc = "validate", !.screenshot_paths = paths]
       ELSE /\ q' = [q EXCEPT !.pc = "validate"]
            /\ faults' = faults
    /\ UNCHANGED <<challenged, open_pages, pages_created, callerVars>>

\* lines 913-919: the debug screenshot of the outcome
QValidate ==
    /\ InQuery /\ q.pc = "validate"
    /\ q' = [q EXCEPT !.pc = "close"]
    /\ UNCHANGED <<faults, challenged, open_pages, pages_created, callerVars>>

\* an awaited page operation inside the try block raises: control goes to
\* the except clause with the locals as they are
QRaise ==
    /\ InQuery /\ q.pc \in TrySteps
    /\ Fault
    /\ q' = [q EXCEPT !.pc = "except", !.raised_at = q.pc]
    /\ UNCHANGED <<challenged, open_pages, pages_created, callerVars>>

\* lines 921-923: the error screenshot, then the error text
QExcept ==
    /\ InQuery /\ q.pc = "except"
    /\ q' = [q EXCEPT !.pc = "close", !.response_text = ERR_EXCEPTION(q.raised_at)]
    /\ UNCHANGED <<faults, challenged, open_pages, pages_created, callerVars>>

\* line 922 raises inside the except clause: the exception leaves query_chatbot
QExceptFails ==
    /\ InQuery /\ q.pc = "except"
    /\ Fault
    /\ q' = [q EXCEPT !.pc = "raised", !.raised_at = "error_screenshot"]
    /\ UNCHANGED <<challenged, open_pages, pages_created, callerVars>>

\* lines 925-928: await page.close(); return the four locals
QClose ==
    /\ InQuery /\ q.pc = "close"
    /\ open_pages' = open_pages \ {q.page}
    /\ q' = [q EXCEPT !.pc = "returned",
                      !.ret = <<q.response_text, q.screenshot_paths,
                                q.was_bot_detected, q.response_time_seconds>>]
    /\ UNCHANGED <<faults, challenged, pages_created, callerVars>>

\* line 926 raises: outside the try block, the exception leaves query_chatbot
QCloseFails ==
    /\ InQuery /\ q.pc = "close"
    /\ Fault
    /\ q' = [q EXCEPT !.pc = "raised", !.raised_at = "page_close"]
    /\ UNCHANGED <<challenged, open_pages, pages_created, callerVars>>

QueryStep ==
    \/ QEntry \/ QNewPageFails \/ QStealth \/ QStealthFails \/ QGoto \/ QCheck1
    \/ QCloseEarly \/ QFindInput \/ QType \/ QSubmit \/ QCheck2 \/ QWait
    \/ QWaitHangs
    \/ QCheck3 \/ QCapture \/ QValidate \/ QRaise \/ QExcept \/ QExceptFails
    \/ QClose \/ QCloseFails

(***************************************************************************)
(* _wait_for_response, lines 930-1072.  Times are tenths of a second since *)
(* start_time.  One poll is one pass of the while loop; the text the pass  *)
(* extracts from the page (lines 979-1011) and the detector's answer are   *)
(* the environment's.                                                      *)
(***************************************************************************)
FAST_POLL_INTERVAL == 2      \* 0.2 s
STABILITY_THRESHOLD == 80    \* 8 s
MIN_RESPONSE_LENGTH == 30
BOT_CHECK_INTERVAL == 50     \* 5 s
SETTLE_THRESHOLD == 5        \* 0.5 s

\* only one of the two markers is looked for
HasMarkerGeneratingOnly(text) == Contains(text, "Generating")

\* line 1014
HasMarker(text) == Contains(text, "Thinking") \/ Contains(text, "Generating")

\* line 1020
TooShort(text) == Len(text) < MIN_RESPONSE_LENGTH

\* texts a poll can extract: nothing yet (below the minimum length), an
\* answer of exactly the minimum length, the answer grown further (ending in
\* a line break), and a text with a still-generating marker
PollTexts ==
    {"",
     "Paris is the capital of France",
     "Paris is the capital of France, and its largest city.\n",
     "Thinking about the capital of France"}

\* the three tests above and strip(), worked out once for every text a poll
\* can extract
TextFacts ==
    [t \in PollTexts |->
        [marker |-> HasMarker(t), short |-> TooShort(t), stripped |-> Strip(t),
         grows_from |-> {u \in PollTexts : StartsWith(t, u)}]]

IdleWait ==
    [pc |-> "idle", now |-> 0, last_response |-> "", last_response_time |-> 0,
     last_growth_time |-> 0, accurate_latency |-> 0, latency_captured |-> FALSE,
     last_bot_check |-> 0, ret |-> NoWait,
     polled |-> "none", obs |-> "", obs_since |-> 0, monotone |-> TRUE,
     changes |-> 0, captured |-> FALSE]

\* lines 1042 and 1070 for a text of PollTexts
WaitCompleteOf(text, latency) ==
    [kind |-> "COMPLETE", text |-> TextFacts[text].stripped, latency |-> latency]
WaitPartialOf(text, latency) ==
    [kind |-> "PARTIAL", text |-> TextFacts[text].stripped, latency |-> latency]

\* the time of the capture itself instead of the time of the last growth
CapturedLatencyAtCapture(f, now) == now

\* line 1031: accurate_latency = last_growth_time - start_time
CapturedLatency(f, now) == f.last_growth_time

\* line 1040: the latency returned with a complete response
FinalLatency(f, now) ==
    IF f.latency_captured THEN f.accurate_latency ELSE now - STABILITY_THRESHOLD

\* line 1068: the latency returned with a partial response
PartialLatency(f, now) ==
    IF f.latency_captured THEN f.accurate_latency ELSE now

\* a change of the text leaves the captured latency in place
TrackKeepingCapture(f, cur, now) ==
    IF TextFacts[cur].marker
    THEN [f EXCEPT !.last_response = "", !.last_response_time = now]
    ELSE IF TextFacts[cur].short
    THEN f
    ELSE IF cur = f.last_response
    THEN LET g == IF /\ ~f.latency_captured
                     /\ now - f.last_growth_time >= SETTLE_THRESHOLD
                     /\ ~TextFacts[cur].short
                  THEN [f EXCEPT !.accurate_latency = CapturedLatency(f, now),
                                 !.latency_captured = TRUE]
                  ELSE f
         IN IF now - f.last_response_time >= STABILITY_THRESHOLD
            THEN [g EXCEPT !.pc = "done",
                           !.ret = WaitCompleteOf(cur, FinalLatency(g, now))]
            ELSE g
    ELSE [f EXCEPT !.last_response = cur, !.last_response_time = now,
                   !.last_growth_time = now]

\* lines 1013-1056: what a pass does with the extracted text `cur` at `now`
Track(f, cur, now) ==
    IF TextFacts[cur].marker
    THEN [f EXCEPT !.last_response = "", !.last_response_time = now]
    ELSE IF TextFacts[cur].short
    THEN f
    ELSE IF cur = f.last_response
    THEN LET g == IF /\ ~f.latency_captured
                     /\ now - f.last_growth_time >= SETTLE_THRESHOLD
                     /\ ~TextFacts[cur].short
                  THEN [f EXCEPT !.accurate_latency = CapturedLatency(f, now),
                                 !.latency_captured = TRUE]
                  ELSE f
         IN IF now - f.last_response_time >= STABILITY_THRESHOLD
            THEN [g EXCEPT !.pc = "done",
                           !.ret = WaitCompleteOf(cur, FinalLatency(g, now))]
            ELSE g
    ELSE [f EXCEPT !.last_response = cur, !.last_response_time = now,
                   !.last_growth_time = now, !.latency_captured = FALSE]

\* the record of what the polls extracted, kept beside the monitor's own
\* variables: the text of the latest extraction, the time of the first poll
\* of the current run of equal extractions, whether every extraction so
\* far began with the one before it, and whether some poll extracted a
\* response text (of the minimum length, without a marker)
Observe(f, cur, now) ==
    [f EXCEPT !.obs = cur,
              !.captured = @ \/ (~TextFacts[cur].marker /\ ~TextFacts[cur].short),
              !.changes = IF cur = f.obs THEN @ ELSE @ + 1,
              !.obs_since = IF cur = f.obs /\ f.polled # "none" THEN f.obs_since ELSE now,
              !.monotone = f.monotone /\ f.obs \in TextFacts[cur].grows_from]

(***************************************************************************)
(* run_evaluation.                                                         *)
(***************************************************************************)
\* the result columns of one (row, target) before any result is stored
NoCell ==
    [present |-> FALSE, response |-> "", screenshots |-> "", bot_detected |-> "",
     response_time |-> 0, retry_count |-> 0]

\* a result that is an error is not stored
StoreCellUnlessError(old, ret) ==
    IF StartsWith(ret[1], "ERROR") THEN old
    ELSE [old EXCEPT !.present = TRUE, !.response = ret[1],
                     !.screenshots = JoinPaths(ret[2]),
                     !.bot_detected = PyStr(ret[3]), !.response_time = ret[4]]

\* lines 1239-1243 and 1314-1318: the four result columns are written,
\* whatever the returned tuple holds
StoreCell(old, ret) ==
    [old EXCEPT !.present = TRUE, !.response = ret[1],
                !.screenshots = JoinPaths(ret[2]),
                !.bot_detected = PyStr(ret[3]), !.response_time = ret[4]]

\* save_results, lines 1369-1417.  The file holds one line per row written;
\* `n` is the number of rows in it, `cells` the result columns of those rows
\* (NoCell for a row that is not in the file) and `failed` tells that the
\* last call raised.
NoFile ==
    [n |-> 0, cells |-> [e \in (1..NumRows) \X AllTargets |-> NoCell],
     failed |-> FALSE]

\* line 1319 is the only place that adds the key retry_count_<chatbot> to a
\* row: a row has it once the entry was retried
HasRetryKey(cs, e) == cs[e].retry_count > 0

\* line 1386: fieldnames = list(rows[0].keys()).  csv.DictWriter raises
\* ValueError for a row that has a key which is not a field name: the rows
\* among the first n that have a retry_count key the first row lacks
Offending(cs, n) ==
    {i \in 1..n : \E c \in Range(chatbots) :
                     HasRetryKey(cs, <<i, c>>) /\ ~HasRetryKey(cs, <<1, c>>)}

\* lines 1391-1394: the file is opened for writing, which empties it, the
\* header is written and then the rows in order; writerows stops at the
\* first row it cannot write and the exception leaves save_results
SaveResults(cs, n) ==
    LET bad == Offending(cs, n)
        j == IF bad = {} THEN n + 1
             ELSE CHOOSE i \in bad : \A k \in bad : i <= k
    IN [n |-> j - 1,
        cells |-> [e \in (1..NumRows) \X AllTargets |->
                      IF e[1] < j THEN cs[e] ELSE NoCell],
        failed |-> bad # {}]

\* the current row is left out of the save
SavedPrefixShort(i) == i - 1

\* line 1265: save_results(rows[:idx+1], ...): the rows up to the current one
SavedPrefix(i) == i

DELAY_BETWEEN_CHATBOTS == 5     \* line 1177
DELAY_BETWEEN_PROMPTS == 15     \* line 1178
RETRY_COOLDOWN == 30            \* line 1298

\* lines 1181-1186
NoStats ==
    [total_queries |-> 0, successful_responses |-> 0, bot_detections |-> 0,
     errors |-> 0]

\* lines 1245-1257 and 1321-1333: the outcome counter of a returned tuple
Tally(st, ret) ==
    IF ret[3] THEN [st EXCEPT !.bot_detections = @ + 1]
    ELSE IF StartsWith(ret[1], "ERROR") THEN [st EXCEPT !.errors = @ + 1]
    ELSE [st EXCEPT !.successful_responses = @ + 1]

\* the short delay is slept after the last target of a row as well
PrimaryDelaysAfterEveryTarget(i, ci) ==
    <<DELAY_BETWEEN_CHATBOTS>>
    \o (IF ci = Len(chatbots) /\ i < NumRows
        THEN <<DELAY_BETWEEN_PROMPTS>> ELSE <<>>)

\* lines 1259-1262 and 1272-1275: the sleeps after the query of target ci of
\* row i: the short one unless it was the last target, the long one after
\* the last target unless it was the last row
PrimaryDelays(i, ci) ==
    (IF ci < Len(chatbots) THEN <<DELAY_BETWEEN_CHATBOTS>> ELSE <<>>)
    \o (IF ci = Len(chatbots) /\ i < NumRows
        THEN <<DELAY_BETWEEN_PROMPTS>> ELSE <<>>)

\* save_results before any call
IdleSave ==
    [pc |-> "idle", n |-> 0, attempt |-> 0, opens |-> 0, alt_writes |-> 0,
     ret |-> "", alt |-> NoFile]

\* every error is retried, not only the flagged ones
NeedsRetryAnyError(cell) ==
    cell.bot_detected = "True" \/ StartsWith(cell.response, "ERROR")

\* line 1285: row.get(f"bot_detected_{chatbot}") == "True"
NeedsRetry(cell) == cell.bot_detected = "True"

\* the loops nested the other way: every row of a target before the next target
PrimaryNextTargetMajor(i, ci) ==
    IF i < NumRows THEN <<i + 1, ci>>
    ELSE IF ci < Len(chatbots) THEN <<1, ci + 1>> ELSE <<NumRows + 1, 1>>

\* lines 1190 and 1229: the position after (i, ci) in the nest "for each row,
\* for each chatbot"; row NumRows + 1 means the primary pass is over
PrimaryNext(i, ci) ==
    IF ci < Len(chatbots) THEN <<i, ci + 1>> ELSE <<i + 1, 1>>

\* one round too many
RetryRoundsLeftOffByOne(r) == r <= MaxRetries + 1

\* line 1280: for retry_round in range(1, max_retries + 1)
RetryRoundsLeft(r) == r <= MaxRetries

\* lines 1282-1286: the flagged entries, rows outermost, targets in order
RetryNeeded ==
    LET n == Len(chatbots)
        all == [k \in 1..(NumRows * n) |->
                    <<((k - 1) \div n) + 1, chatbots[((k - 1) % n) + 1]>>]
    IN SelectSeq(all, LAMBDA e : NeedsRetry(cells[e]))

\* the raw prompt of the row instead of the stored combined prompt
RetryPromptRaw(i) == rows[i].synthetic_prompt

\* line 1304: row.get("prompt_sent", row.get("synthetic_prompt", ""))
RetryPrompt(i) ==
    IF prompt_sent[i].present THEN prompt_sent[i].value
    ELSE rows[i].synthetic_prompt

\* lines 1190-1226: a row of the primary pass begins; its combined prompt is
\* built once and stored in the row
RowStart ==
    /\ pc = "row_start"
    /\ full_prompt' = BuildFullPrompt(rows[idx])
    /\ prompt_sent' = [prompt_sent EXCEPT
                         ![idx] = [present |-> TRUE, value |-> full_prompt']]
    /\ pc' = "call"
    /\ UNCHANGED <<rows, chatbots, cells, idx, chatbot_idx, retry_round,
                   retry_needed, retry_idx, q, open_pages, pages_created,
                   emitted, cooldowns, faults, challenged, saved, w, cap,
                   stats, slept, sv>>

\* lines 1229-1237: the next target is queried with the row's prompt
PrimaryCall ==
    /\ pc = "call"
    /\ q' = QueryCall(chatbots[chatbot_idx], full_prompt,
                      rows[idx].synthetic_prompt_id)
    /\ emitted' = Append(emitted,
                         [row |-> idx, chatbot |-> chatbots[chatbot_idx],
                          prompt |-> full_prompt, round |-> 0,
                          slept |-> slept])
    /\ stats' = [stats EXCEPT !.total_queries = @ + 1]
    /\ slept' = <<>>
    /\ pc' = "in_query"
    /\ UNCHANGED <<rows, chatbots, prompt_sent, cells, idx, chatbot_idx,
                   retry_round, retry_needed, retry_idx, full_prompt,
                   open_pages, pages_created, cooldowns, faults, challenged,
                   saved, w, cap, sv>>

\* lines 1239-1275: the result is stored; then the next target of the row
\* after the short delay, or the row is saved and the next row begins after
\* the long delay, or the primary pass is over
PrimaryStore ==
    /\ pc = "in_query" /\ q.pc = "returned"
    /\ cells' = [cells EXCEPT ![<<idx, q.chatbot>>] = StoreCell(@, q.ret)]
    /\ q' = NoQuery
    /\ LET nxt == PrimaryNext(idx, chatbot_idx)
       IN /\ chatbot_idx' = nxt[2]
          /\ IF nxt[1] = idx
             THEN pc' = "call" /\ idx' = idx /\ retry_round' = retry_round
             ELSE IF nxt[1] <= NumRows
                  THEN pc' = "row_start" /\ idx' = nxt[1] /\ retry_round' = retry_round
                  ELSE pc' = "retry_scan" /\ idx' = idx /\ retry_round' = 1
          /\ saved' = IF nxt[1] = idx THEN saved
                      ELSE SaveResults(cells', SavedPrefix(idx))
    /\ stats' = Tally(stats, q.ret)
    /\ slept' = slept \o PrimaryDelays(idx, chatbot_idx)
    /\ UNCHANGED <<rows, chatbots, prompt_sent, retry_needed, retry_idx,
                   full_prompt, open_pages, pages_created, emitted, cooldowns,
                   faults, challenged, w, cap, sv>>

\* lines 1280-1298: the top of a retry round: the flagged entries are
\* collected; with none the loop is left, otherwise the cooldown is slept
RetryScan ==
    /\ pc = "retry_scan"
    /\ IF RetryRoundsLeft(retry_round) /\ RetryNeeded # <<>>
       THEN /\ retry_needed' = RetryNeeded
            /\ retry_idx' = 1
            /\ cooldowns' = cooldowns + 1
            /\ slept' = Append(slept, RETRY_COOLDOWN)
            /\ pc' = "retry_call"
       ELSE /\ pc' = "finish"
            /\ UNCHANGED <<retry_needed, retry_idx, cooldowns, slept>>
    /\ UNCHANGED <<rows, chatbots, prompt_sent, cells, idx, chatbot_idx,
                   retry_round, full_prompt, q, open_pages, pages_created,
                   emitted, faults, challenged, saved, w, cap, stats, sv>>

\* lines 1300-1312: the next flagged entry is queried again
RetryCall ==
    /\ pc = "retry_call"
    /\ LET e == retry_needed[retry_idx]
       IN /\ full_prompt' = RetryPrompt(e[1])
          /\ q' = QueryCall(e[2], full_prompt', rows[e[1]].synthetic_prompt_id)
          /\ emitted' = Append(emitted,
                               [row |-> e[1], chatbot |-> e[2],
                                prompt |-> full_prompt', round |-> retry_round,
                                slept |-> slept])
    /\ stats' = [stats EXCEPT !.total_queries = @ + 1]
    /\ slept' = <<>>
    /\ pc' = "in_retry"
    /\ UNCHANGED <<rows, chatbots, prompt_sent, cells, idx, chatbot_idx,
                   retry_round, retry_needed, retry_idx, open_pages,
                   pages_created, cooldowns, faults, challenged, saved, w, cap, sv>>

\* lines 1314-1342: the result replaces the entry's columns; then the next
\* entry of the round, or the round is saved and the next round begins.  An
\* exception of save_results leaves run_evaluation through the finally clause.
RetryStore ==
    /\ pc = "in_retry" /\ q.pc = "returned"
    /\ LET e == retry_needed[retry_idx]
       IN cells' = [cells EXCEPT
                      ![e] = [StoreCell(@, q.ret) EXCEPT !.retry_count = retry_round]]
    /\ q' = NoQuery
    /\ stats' = Tally(stats, q.ret)
    /\ slept' = IF retry_idx < Len(retry_needed)
                THEN Append(slept, DELAY_BETWEEN_CHATBOTS) ELSE slept
    /\ IF retry_idx < Len(retry_needed)
       THEN /\ retry_idx' = retry_idx + 1 /\ pc' = "retry_call"
            /\ retry_round' = retry_round
            /\ saved' = saved
       ELSE /\ saved' = SaveResults(cells', NumRows)
            /\ IF saved'.failed
               THEN /\ retry_idx' = retry_idx + 1 /\ pc' = "aborted"
                    /\ retry_round' = retry_round
               ELSE /\ retry_idx' = retry_idx /\ pc' = "retry_scan"
                    /\ retry_round' = retry_round + 1
    /\ UNCHANGED <<rows, chatbots, prompt_sent, idx, chatbot_idx, retry_needed,
                   full_prompt, open_pages, pages_created, emitted, cooldowns,
                   faults, challenged, w, cap, sv>>

\* an exception left query_chatbot: run_evaluation has a finally clause and no
\* except clause, so agent.close() closes every page (lines 1344-1349,
\* 1113-1133) and the exception leaves run_evaluation
Propagate ==
    /\ InQuery /\ q.pc = "raised"
    /\ open_pages' = {}
    /\ pc' = "aborted"
    /\ UNCHANGED <<rows, chatbots, prompt_sent, cells, idx, chatbot_idx,
                   retry_round, retry_needed, retry_idx, full_prompt, q,
                   pages_created, emitted, cooldowns, faults, challenged,
                   saved, w, cap, stats, slept, sv>>

\* lines 1344-1366: the loops are over: the browser is closed, the rows are
\* saved a last time and returned
Finish ==
    /\ pc = "finish"
    /\ open_pages' = {}
    /\ saved' = SaveResults(cells, NumRows)
    /\ pc' = IF saved'.failed THEN "aborted" ELSE "done"
    /\ UNCHANGED <<rows, chatbots, prompt_sent, cells, idx, chatbot_idx,
                   retry_round, retry_needed, retry_idx, full_prompt, q,
                   pages_created, emitted, cooldowns, faults, challenged, w, cap,
                   stats, slept, sv>>

(***************************************************************************)
(* _capture_response_screenshots, lines 250-748.  Lengths are pixels.  The *)
(* response element is `height` tall and starts at the top of the          *)
(* viewport; its text elements are `para` tall each; `room` is how far the *)
(* container (or the window) can be scrolled from there; `scroll` is how   *)
(* far it has been scrolled.                                               *)
(***************************************************************************)
VIEWPORT_HEIGHT == 1080     \* line 113, read back at line 285
OVERLAP_PX == 150           \* lines 690 and 720
END_TOLERANCE == 10         \* lines 574 and 585
MAX_SCREENSHOTS == 15       \* line 498
LINE_HEIGHT == 30           \* the height of a text element of one line

\* lines 669 and 720: scrollAmount = viewportHeight - overlapPx
ScrollAmount == VIEWPORT_HEIGHT - OVERLAP_PX

\* `paths` is the length of screenshot_paths, `fallback` the number of
\* full-page screenshots attempted and `error` names the place where an
\* awaited call raised
IdleCapture ==
    [pc |-> "idle", n |-> 0, height |-> 0, para |-> 0, room |-> 0,
     is_gemini |-> FALSE, has_container |-> FALSE, has_chunk |-> FALSE,
     scroll |-> 0, i |-> 0, screenshots_taken |-> 0, seen |-> {},
     paths |-> 0, fallback |-> 0, error |-> ""]


\* the state after the rows are loaded and the agent is initialised
\* (lines 1150-1186)

Init ==
    /\ rows \in RowChoices
    /\ chatbots \in ChatbotChoices
    /\ prompt_sent = [i \in 1..NumRows |-> [present |-> FALSE, value |-> ""]]
    /\ cells = [e \in (1..NumRows) \X AllTargets |-> NoCell]
    /\ pc = "row_start"
    /\ idx = 1
    /\ chatbot_idx = 1
    /\ retry_round = 0
    /\ retry_needed = <<>>
    /\ retry_idx = 0
    /\ full_prompt = ""
    /\ q = NoQuery
    /\ open_pages = {}
    /\ pages_created = 0
    /\ emitted = <<>>
    /\ cooldowns = 0
    /\ faults = 0
    /\ challenged = {}
    /\ saved = NoFile
    /\ w = IdleWait
    /\ cap = IdleCapture
    /\ stats = NoStats
    /\ slept = <<>>
    /\ sv = IdleSave

Next ==
    \/ RowStart \/ PrimaryCall \/ PrimaryStore \/ RetryScan \/ RetryCall
    \/ RetryStore \/ Propagate \/ Finish \/ QueryStep

Spec == Init /\ [][Next]_vars

\* run_evaluation is one asyncio task that runs whenever it can: a step that
\* is possible is taken
SpecFair == Spec /\ WF_vars(Next)

(***************************************************************************)
(* The monitor's steps.                                                    *)
(***************************************************************************)
\* lines 947-963: the call begins
WCall ==
    /\ w.pc = "idle"
    /\ w' = [IdleWait EXCEPT !.pc = "loop"]
    /\ UNCHANGED <<schedVars, cap>>

\* lines 965-1064: one pass of the loop, `d` tenths after the previous one
WPoll ==
    /\ w.pc = "loop" /\ w.now < WaitTimeout
    /\ \E d \in FAST_POLL_INTERVAL..(FAST_POLL_INTERVAL + MaxJitter) :
         LET now == w.now + d
             due == now - w.last_bot_check >= BOT_CHECK_INTERVAL
             f == [w EXCEPT !.now = now,
                            !.last_bot_check = IF due THEN now ELSE @]
         IN \/ \* the periodic check sees a challenge (lines 970-975)
               /\ due
               /\ w' = [f EXCEPT !.pc = "done", !.ret = WaitDefense,
                                 !.polled = "defense"]
            \/ \* a text is extracted and tracked
               \E cur \in PollTexts :
                  /\ cur # w.obs => w.changes < MaxChanges
                  /\ w' = [Track(Observe(f, cur, now), cur, now) EXCEPT !.polled = "text"]
    /\ UNCHANGED <<schedVars, cap>>

\* lines 1066-1072: the loop ran out of time
WTimeout ==
    /\ w.pc = "loop" /\ w.now >= WaitTimeout
    /\ w' = [w EXCEPT
               !.pc = "done",
               !.polled = "timeout",
               !.ret = IF w.last_response # ""
                          /\ ~TextFacts[w.last_response].short
                       THEN WaitPartialOf(w.last_response, PartialLatency(w, w.now))
                       ELSE WaitTimedOut]
    /\ UNCHANGED <<schedVars, cap>>

\* one call of the monitor, without the scheduler
InitWait ==
    /\ rows = [i \in 1..NumRows |-> RowPool[1]]
    /\ chatbots = [i \in 1..NumTargets |-> KnownOrder[i]]
    /\ prompt_sent = [i \in 1..NumRows |-> [present |-> FALSE, value |-> ""]]
    /\ cells = [e \in (1..NumRows) \X AllTargets |-> NoCell]
    /\ pc = "in_query"
    /\ idx = 1
    /\ chatbot_idx = 1
    /\ retry_round = 0
    /\ retry_needed = <<>>
    /\ retry_idx = 0
    /\ full_prompt = ""
    /\ q = NoQuery
    /\ open_pages = {}
    /\ pages_created = 0
    /\ emitted = <<>>
    /\ cooldowns = 0
    /\ faults = 0
    /\ challenged = {}
    /\ saved = NoFile
    /\ w = IdleWait
    /\ cap = IdleCapture
    /\ stats = NoStats
    /\ slept = <<>>
    /\ sv = IdleSave

NextWait == WCall \/ WPoll \/ WTimeout

SpecWait == InitWait /\ [][NextWait]_vars

\* lines 533-560: the index (from 0) of the last text element that
\* intersects the viewport; the end of the visible text is the end of that
\* element's text; -1 when the response has left the viewport
LastVisible(f) ==
    IF f.scroll >= f.height THEN -1
    ELSE Min((f.height \div f.para) - 1,
             (f.scroll + VIEWPORT_HEIGHT - 1) \div f.para)

\* line 574: isAtEnd = responseRect.bottom <= viewportBottom + 10
IsAtEnd(f) == f.height - f.scroll <= VIEWPORT_HEIGHT + END_TOLERANCE

\* line 585: atEnd of the scroll container, when there is one
ContainerAtEnd(f) == f.has_container /\ f.scroll >= f.room - END_TOLERANCE

\* a visible text seen before does not stop the loop
StopsAfterShotNoRepeat(f) ==
    \/ IF f.is_gemini THEN ContainerAtEnd(f)
       ELSE IsAtEnd(f) \/ ContainerAtEnd(f)
    \/ ~f.is_gemini /\ f.has_chunk
          /\ LastVisible(f) = (f.height \div f.para) - 1

\* lines 611-647: the three reasons to stop after a screenshot: the end
\* position, a visible text seen before, the end of the response text
StopsAfterShot(f) ==
    \/ IF f.is_gemini THEN ContainerAtEnd(f)
       ELSE IsAtEnd(f) \/ ContainerAtEnd(f)
    \/ f.i > 0 /\ LastVisible(f) \in f.seen
    \/ ~f.is_gemini /\ f.has_chunk
          /\ LastVisible(f) = (f.height \div f.para) - 1

\* lines 267-504: the call begins with the response at the top
CapCall ==
    /\ cap.pc = "idle"
    /\ \E n \in 1..MaxShots, one_block, gemini, container, chunk, below \in BOOLEAN :
         LET h == n * ScrollAmount
         IN cap' = [IdleCapture EXCEPT
                      !.pc = "loop", !.n = n, !.height = h,
                      !.para = IF one_block THEN h ELSE LINE_HEIGHT,
                      !.room = IF below THEN h
                               ELSE IF h > VIEWPORT_HEIGHT
                                    THEN h - VIEWPORT_HEIGHT ELSE 0,
                      !.is_gemini = gemini, !.has_container = container,
                      !.has_chunk = chunk]
    /\ UNCHANGED <<schedVars, w>>

\* lines 506-729: one pass of the loop: the screenshot, the checks, the scroll
CapIterate ==
    /\ cap.pc = "loop"
    /\ LET f == [cap EXCEPT !.screenshots_taken = @ + 1, !.paths = @ + 1]
           to == Min(f.scroll + ScrollAmount, f.room)
           moved == to # f.scroll
           goes_on == /\ moved \/ (f.is_gemini /\ f.has_container)
                      /\ f.i + 1 < MAX_SCREENSHOTS
       IN cap' = IF StopsAfterShot(f)
                 THEN [f EXCEPT !.pc = "done"]
                 ELSE [f EXCEPT !.pc = IF goes_on THEN "loop" ELSE "done",
                                !.seen = @ \cup {LastVisible(f)},
                                !.scroll = to,
                                !.i = @ + 1]
    /\ UNCHANGED <<schedVars, w>>

\* lines 267-268: prompt_dir.mkdir is outside the try block: its exception
\* leaves the function
CapMkdirFails ==
    /\ cap.pc = "idle"
    /\ cap' = [cap EXCEPT !.pc = "raised", !.error = "mkdir"]
    /\ UNCHANGED <<schedVars, w>>

\* lines 283-285: an awaited call before the loop raises inside the try block
CapSetupFails ==
    /\ cap.pc = "idle"
    /\ cap' = [cap EXCEPT !.pc = "except", !.error = "setup"]
    /\ UNCHANGED <<schedVars, w>>

\* lines 511 and 516: page.screenshot raises, or the page.evaluate that reads
\* the visible text raises after the screenshot was taken
CapShotFails ==
    /\ cap.pc = "loop"
    /\ \E taken \in BOOLEAN :
         cap' = [cap EXCEPT !.pc = "except", !.error = "capture",
                            !.screenshots_taken = IF taken THEN @ + 1 ELSE @,
                            !.paths = IF taken THEN @ + 1 ELSE @]
    /\ UNCHANGED <<schedVars, w>>

\* lines 714-716 and 728-730: the scroll raises: the handler around it leaves
\* the loop
CapScrollFails ==
    /\ cap.pc = "loop"
    /\ LET f == [cap EXCEPT !.screenshots_taken = @ + 1, !.paths = @ + 1]
       IN /\ ~StopsAfterShot(f)
          /\ cap' = [f EXCEPT !.pc = "done", !.error = "scroll",
                              !.seen = @ \cup {LastVisible(f)}]
    /\ UNCHANGED <<schedVars, w>>

\* lines 737-746: the except clause of the function: one full-page screenshot
\* is tried, and its own failure is passed over
CapFallback ==
    /\ cap.pc = "except"
    /\ \E ok \in BOOLEAN :
         cap' = [cap EXCEPT !.pc = "done", !.fallback = @ + 1,
                            !.paths = IF ok THEN @ + 1 ELSE @]
    /\ UNCHANGED <<schedVars, w>>

\* one call of the capture, without the scheduler
InitCapture ==
    /\ rows = [i \in 1..NumRows |-> RowPool[1]]
    /\ chatbots = [i \in 1..NumTargets |-> KnownOrder[i]]
    /\ prompt_sent = [i \in 1..NumRows |-> [present |-> FALSE, value |-> ""]]
    /\ cells = [e \in (1..NumRows) \X AllTargets |-> NoCell]
    /\ pc = "in_query"
    /\ idx = 1
    /\ chatbot_idx = 1
    /\ retry_round = 0
    /\ retry_needed = <<>>
    /\ retry_idx = 0
    /\ full_prompt = ""
    /\ q = NoQuery
    /\ open_pages = {}
    /\ pages_created = 0
    /\ emitted = <<>>
    /\ cooldowns = 0
    /\ faults = 0
    /\ challenged = {}
    /\ saved = NoFile
    /\ w = IdleWait
    /\ cap = IdleCapture
    /\ stats = NoStats
    /\ slept = <<>>
    /\ sv = IdleSave

NextCapture ==
    \/ CapCall \/ CapIterate \/ CapMkdirFails \/ CapSetupFails \/ CapShotFails
    \/ CapScrollFails \/ CapFallback

SpecCapture == InitCapture /\ [][NextCapture]_vars

\* the capture is awaited by one task: a step that is possible is taken
SpecCaptureFair == SpecCapture /\ WF_vars(NextCapture)

(***************************************************************************)
(* save_results, lines 1369-1417, called on the first n rows while another *)
(* program may hold the primary file open.                                 *)
(***************************************************************************)
\* the variables save_results leaves alone
saveOthers == <<rows, chatbots, prompt_sent, cells, pc, idx, chatbot_idx,
                retry_round, retry_needed, retry_idx, full_prompt, q,
                open_pages, pages_created, emitted, cooldowns, faults,
                challenged, w, cap, stats, slept>>

\* the result columns of the rows as run_evaluation can pass them: every
\* entry holds a result, and the entries of `retried` were retried once
CellsRetried(retried) ==
    [e \in (1..NumRows) \X AllTargets |->
        IF e[2] \in {KnownOrder[i] : i \in 1..NumTargets}
        THEN [StoreCell(NoCell, <<ERR_BOT, <<>>, TRUE, 0>>)
                EXCEPT !.retry_count = IF e \in retried THEN 1 ELSE 0]
        ELSE NoCell]

\* lines 1381-1386: the call begins; with no rows nothing is written and the
\* primary path is returned (line 1417)
SvCall ==
    /\ sv.pc = "idle"
    /\ \E n \in 0..NumRows :
         sv' = IF n = 0
               THEN [IdleSave EXCEPT !.pc = "returned", !.ret = "primary"]
               ELSE [IdleSave EXCEPT !.pc = "attempt", !.n = n]
    /\ UNCHANGED <<saved, saveOthers>>

\* lines 1391 and 1400-1404: open raises PermissionError: the first two times
\* the call sleeps and tries again, the third time it turns to the alternate
\* path
SvLocked ==
    /\ sv.pc = "attempt"
    /\ sv' = IF sv.attempt < 2
             THEN [sv EXCEPT !.opens = @ + 1, !.attempt = @ + 1]
             ELSE [sv EXCEPT !.opens = @ + 1, !.pc = "fallback"]
    /\ UNCHANGED <<saved, saveOthers>>

\* lines 1391-1398: the primary file is opened and written; an exception of
\* the writer is not a PermissionError and leaves the function
SvWrite ==
    /\ sv.pc = "attempt"
    /\ saved' = SaveResults(cells, sv.n)
    /\ sv' = [sv EXCEPT !.opens = @ + 1,
                        !.pc = IF saved'.failed THEN "raised" ELSE "returned",
                        !.ret = IF saved'.failed THEN "" ELSE "primary"]
    /\ UNCHANGED saveOthers

\* lines 1405-1414: the rows are written to the timestamped file
SvFallback ==
    /\ sv.pc = "fallback"
    /\ LET file == SaveResults(cells, sv.n)
       IN sv' = [sv EXCEPT !.alt = file, !.alt_writes = @ + 1,
                           !.pc = IF file.failed THEN "raised" ELSE "returned",
                           !.ret = IF file.failed THEN "" ELSE "alternate"]
    /\ UNCHANGED <<saved, saveOthers>>

\* one call of save_results, without the scheduler
InitSave ==
    /\ rows = [i \in 1..NumRows |-> RowPool[1]]
    /\ chatbots = [i \in 1..NumTargets |-> KnownOrder[i]]
    /\ prompt_sent = [i \in 1..NumRows |-> [present |-> FALSE, value |-> ""]]
    /\ \E retried \in SUBSET ((1..NumRows) \X {KnownOrder[i] : i \in 1..NumTargets}) :
         cells = CellsRetried(retried)
    /\ pc = "retry_scan"
    /\ idx = NumRows
    /\ chatbot_idx = 1
    /\ retry_round = 1
    /\ retry_needed = <<>>
    /\ retry_idx = 0
    /\ full_prompt = ""
    /\ q = NoQuery
    /\ open_pages = {}
    /\ pages_created = 0
    /\ emitted = <<>>
    /\ cooldowns = 0
    /\ faults = 0
    /\ challenged = {}
    /\ saved = NoFile
    /\ w = IdleWait
    /\ cap = IdleCapture
    /\ stats = NoStats
    /\ slept = <<>>
    /\ sv = IdleSave

NextSave == SvCall \/ SvLocked \/ SvWrite \/ SvFallback

SpecSave == InitSave /\ [][NextSave]_vars

(***************************************************************************)
(* Properties.                                                             *)
(***************************************************************************)
\* the (row, target) pairs of the run
Pairs == (1..NumRows) \X Range(chatbots)

\* the number of calls of query_chatbot made for a pair
Attempts(e) ==
    Cardinality({k \in 1..Len(emitted) :
                    emitted[k].row = e[1] /\ emitted[k].chatbot = e[2]})

\* the latest poll extracted a text that has only grown, is a response (of
\* the minimum length, without a still-generating marker) and has been the
\* same at every poll for the stability threshold
StableAnswerPolled ==
    /\ w.polled = "text"
    /\ w.monotone
    /\ ~TextFacts[w.obs].short
    /\ ~TextFacts[w.obs].marker
    /\ w.now - w.obs_since >= STABILITY_THRESHOLD

\* C1 as stated: for a poll sequence whose text only grows and then stays
\* constant for the stability threshold, the monitor returns COMPLETE with
\* exactly that text and a latency of the last-growth timestamp plus the
\* settle threshold.
C1_LatencyPlusSettle ==
    StableAnswerPolled =>
        /\ w.pc = "done"
        /\ w.ret = [kind |-> "COMPLETE", text |-> w.obs,
                    latency |-> w.obs_since + SETTLE_THRESHOLD]

\* C1 as amended: under the same condition the monitor returns COMPLETE with
\* that text, leading and trailing whitespace removed, and a latency equal
\* to the last-growth timestamp itself, the time from the start of the wait
\* to the poll that first extracted the final text.
C1_LatencyIsLastGrowth ==
    StableAnswerPolled =>
        /\ w.pc = "done"
        /\ w.ret = [kind |-> "COMPLETE", text |-> Strip(w.obs),
                    latency |-> w.obs_since]

\* a wait in which the text grew twice, the second time after the first
\* text had settled, and was then stable for the threshold
C1_Witness ==
    /\ StableAnswerPolled
    /\ w.changes = 2
    /\ w.obs_since >= 2 * SETTLE_THRESHOLD
    /\ w.ret.kind = "COMPLETE"
    /\ w.ret.text # w.obs

\* C2: in the primary pass the queries are emitted row by row, every target
\* of a row in the configured order before any target of the next row.
C2_RowMajorOrder ==
    \A k \in 1..Len(emitted) :
        emitted[k].round = 0 =>
            /\ k <= NumRows * Len(chatbots)
            /\ emitted[k].row = ((k - 1) \div Len(chatbots)) + 1
            /\ emitted[k].chatbot = chatbots[((k - 1) % Len(chatbots)) + 1]

\* the primary pass is over and has emitted one query per (row, target)
C2_Witness ==
    /\ pc = "retry_scan"
    /\ Len(emitted) = NumRows * NumTargets
    /\ NumRows > 1 /\ NumTargets > 1

\* C3: a retry round queries exactly the entries whose latest attempt was
\* flagged as defense-triggered: the entry being queried is flagged, every
\* entry still to come in the round is flagged, no entry outside the round's
\* list is flagged, and the list names no entry twice.  So an entry whose
\* latest attempt was a success, a timeout or a missing input is not queried.
C3_RetryExactlyFlagged ==
    pc \in {"retry_call", "in_retry"} =>
        /\ \A k \in retry_idx..Len(retry_needed) :
              cells[retry_needed[k]].bot_detected = "True"
        /\ \A e \in Pairs :
              e \notin Range(retry_needed) => cells[e].bot_detected # "True"
        /\ \A j, k \in 1..Len(retry_needed) :
              retry_needed[j] = retry_needed[k] => j = k
        /\ pc = "in_retry" =>
              LET l == emitted[Len(emitted)]
              IN /\ l.round = retry_round
                 /\ <<l.row, l.chatbot>> = retry_needed[retry_idx]

\* the second retry round queries a flagged entry while another entry, whose
\* latest attempt found no input field, is left alone
C3_Witness ==
    /\ pc = "in_retry"
    /\ retry_round = 2
    /\ \E e \in Pairs :
          /\ cells[e].response = ERR_NO_INPUT
          /\ e \notin Range(retry_needed)
          /\ Attempts(e) = 1

\* C4: when the monitor ended with the detector's error, the result of the
\* query is flagged as defense-triggered.
C4_DefenseIsFlagged ==
    (/\ InQuery
     /\ q.wait_ret.kind = "DEFENSE"
     /\ q.raised_at = ""
     /\ q.pc \in {"capture", "validate", "close", "returned"})
        => q.was_bot_detected

\* C5: once the primary pass is over every row holds a result cell for every
\* target, and while it runs every finished row does.
C5_EveryCellPresent ==
    /\ retry_round >= 1 => \A e \in Pairs : cells[e].present
    /\ \A e \in Pairs : (pc # "aborted" /\ e[1] < idx) => cells[e].present

\* the primary pass ended with an unknown target, a failed navigation and a
\* missing input field among its outcomes
C5_Witness ==
    /\ pc = "retry_scan"
    /\ \E e \in Pairs : cells[e].response = ERR_UNKNOWN_CHATBOT(UnknownTarget)
    /\ \E e \in Pairs : cells[e].response = ERR_EXCEPTION("goto")
    /\ \E e \in Pairs : cells[e].response = ERR_NO_INPUT

\* C6: no exception leaves query_chatbot, and run_evaluation is never
\* aborted by one.
C6_ExceptionsContained ==
    q.pc # "raised" /\ pc # "aborted"

\* C7: every emission for a row carries the same combined prompt.
C7_SamePromptPerRow ==
    \A j, k \in 1..Len(emitted) :
        emitted[j].row = emitted[k].row => emitted[j].prompt = emitted[k].prompt

\* a row whose combined prompt differs from its raw prompt was queried for
\* two targets and again in a retry round
C7_Witness ==
    \E j, k, l \in 1..Len(emitted) :
        /\ emitted[j].row = emitted[k].row /\ emitted[k].row = emitted[l].row
        /\ emitted[j].chatbot # emitted[k].chatbot
        /\ emitted[j].round = 0 /\ emitted[k].round = 0 /\ emitted[l].round >= 1
        /\ emitted[l].prompt # rows[emitted[l].row].synthetic_prompt

\* the counts of rounds, cooldowns and queries per pair are within max_retries
C8_State ==
    /\ \A e \in Pairs : Attempts(e) <= 1 + MaxRetries
    /\ cooldowns <= MaxRetries
    /\ \A k \in 1..Len(emitted) : emitted[k].round <= MaxRetries

\* a retry scan that finds nothing flagged goes straight to the end
C8_StopsWhenClean ==
    (pc = "retry_scan" /\ \A e \in Pairs : cells[e].bot_detected # "True")
        => (pc' = "finish" /\ cooldowns' = cooldowns /\ emitted' = emitted)

\* after the retries have ended there is no cooldown and no query
C8_NothingAfterEnd ==
    pc \in {"finish", "done"}
        => (pc' \in {"finish", "done"} /\ cooldowns' = cooldowns
                                        /\ emitted' = emitted)

\* C8: at most max_retries retry rounds and cooldowns, so at most
\* 1 + max_retries queries per pair; and a retry scan that finds no flagged
\* entry ends the retries with no further cooldown or query.
C8_BoundedRetries ==
    /\ []C8_State
    /\ [][C8_StopsWhenClean]_vars
    /\ [][C8_NothingAfterEnd]_vars

\* a run that ended with one pair queried 1 + max_retries times and another
\* queried once
C8_Witness ==
    /\ pc = "done"
    /\ \E e \in Pairs : Attempts(e) = 1 + MaxRetries
    /\ \E e \in Pairs : Attempts(e) = 1
    /\ cooldowns = MaxRetries

\* C9: a call that reaches the submit step issues exactly one submission,
\* the click or else the Enter fallback, and none before the submit step.
C9_ExactlyOneSubmission ==
    InQuery =>
        /\ q.pc \in BeforeSubmit => q.submits = <<>>
        /\ q.pc \in {"check2", "wait", "check3", "capture", "validate"} =>
              q.submits = <<IF q.submitted THEN "click" ELSE "enter">>

\* C10: the page of a query is closed on every way out of query_chatbot and
\* at most one page is open at any time.
C10_PageClosedOnExit ==
    /\ Cardinality(open_pages) <= 1
    /\ q.pc \in {"returned", "raised"} => q.page \notin open_pages


\* C11: when the hard timeout expires the monitor returns a partial result
\* if some poll of the wait extracted a response text, and the timed-out
\* error only if none did.
C11_PartialIffCaptured ==
    w.polled = "timeout" =>
        /\ w.pc = "done"
        /\ w.captured => w.ret.kind = "PARTIAL"
        /\ ~w.captured => w.ret = WaitTimedOut

\* the latency is captured only once the text has been unchanged for the
\* settle threshold, its value is the last-growth time of the current
\* stretch, and an unchanged poll past the settle threshold has it captured
C12_State ==
    /\ w.latency_captured =>
          /\ w.accurate_latency = w.last_growth_time
          /\ w.now - w.last_growth_time >= SETTLE_THRESHOLD
    /\ (/\ w.polled = "text"
        /\ w.obs = w.last_response
        /\ ~TextFacts[w.obs].short /\ ~TextFacts[w.obs].marker
        /\ w.now - w.last_growth_time >= SETTLE_THRESHOLD)
          => w.latency_captured

\* a poll that leaves the latency captured leaves its value alone, and a poll
\* that tracks a changed text clears the capture
C12_Step ==
    /\ (w.latency_captured /\ w'.latency_captured)
          => w'.accurate_latency = w.accurate_latency
    /\ (w'.last_response # w.last_response /\ w'.last_response # "")
          => ~w'.latency_captured

C19_CompleteOnlyWhenStable ==
    w.ret.kind = "COMPLETE" =>
        /\ w.polled = "text"
        /\ w.now - w.obs_since >= STABILITY_THRESHOLD

\* the texts of PollTexts that hold 'Thinking' or 'Generating', and those of
\* fewer than 30 characters
StillGeneratingTexts ==
    {t \in PollTexts : Contains(t, "Thinking") \/ Contains(t, "Generating")}
BelowMinimumTexts == {t \in PollTexts : Len(t) < 30}

\* C20: a poll whose text is below the minimum length or holds a
\* still-generating marker never ends the wait, and a marker poll discards
\* the tracked text and restarts the stability timer.
C20_ShortOrMarkerKeepsWaiting ==
    (w.polled = "text" /\ w.obs \in StillGeneratingTexts \cup BelowMinimumTexts) =>
        /\ w.pc = "loop"
        /\ w.ret = NoWait
        /\ w.obs \in StillGeneratingTexts =>
              (w.last_response = "" /\ w.last_response_time = w.now)

\* a marker poll that follows a tracked response text, late enough for that
\* text to have been complete had it stayed
C20_Witness ==
    /\ w.polled = "text"
    /\ w.obs \in StillGeneratingTexts
    /\ w.captured
    /\ w.last_response = ""
    /\ w.now >= STABILITY_THRESHOLD + FAST_POLL_INTERVAL


\* the results obtained so far that the file does not hold
Unsaved == {e \in Pairs : cells[e] # saved.cells[e]}

\* the entry of the query that is running
InFlight ==
    IF InQuery /\ emitted # <<>>
    THEN {<<emitted[Len(emitted)].row, emitted[Len(emitted)].chatbot>>}
    ELSE {}

\* the entries of the row, or of the retry round, that is in progress and
\* whose result has been stored
InProgress ==
    IF retry_round = 0 THEN {e \in Pairs : e[1] = idx}
    ELSE IF pc \in {"retry_call", "in_retry", "aborted"}
         THEN {retry_needed[k] : k \in 1..(retry_idx - 1)}
         ELSE {}

C14_RetrySaveSucceeds ==
    /\ ~saved.failed
    /\ (pc = "retry_scan" /\ retry_round >= 2) =>
          (saved.n = NumRows /\ \A e \in Pairs : saved.cells[e] = cells[e])

\* C15: an entry whose latest attempt failed in navigation is queried again
\* in the next retry round.
C15_NavigationFailureRetried ==
    /\ pc \in {"retry_call", "in_retry"} =>
          \A e \in Pairs : cells[e].response = ERR_EXCEPTION("goto")
                              => e \in Range(retry_needed)
    /\ (pc = "finish" /\ RetryRoundsLeft(retry_round)) =>
          \A e \in Pairs : cells[e].response # ERR_EXCEPTION("goto")

\* C16: when no input locator candidate matches, the query is flagged as
\* defense-triggered exactly when the detector is positive at that moment
\* and is otherwise an input-not-found failure without the flag; nothing is
\* typed or submitted; the flagged outcome is in the next round's list and
\* the input-not-found outcome is in none.  (The texts are those of a call
\* in which closing the page did not raise.)
C16_InputNotFound ==
    /\ (InQuery /\ q.site = "no_input") =>
          /\ ~q.typed /\ q.submits = <<>>
          /\ q.was_bot_detected <=> q.chatbot \in challenged
          /\ q.raised_at = "" =>
                /\ q.pc \in {"close_early", "returned"}
                /\ q.response_text =
                      IF q.was_bot_detected THEN ERR_BOT ELSE ERR_NO_INPUT
                /\ q.pc = "returned" =>
                      q.ret = <<q.response_text, <<>>, q.was_bot_detected, 0>>
    /\ pc \in {"retry_call", "in_retry"} =>
          \A e \in Pairs :
              /\ cells[e].response = ERR_NO_INPUT =>
                    \A k \in retry_idx..Len(retry_needed) : retry_needed[k] # e
              /\ (cells[e].response = ERR_BOT /\ cells[e].bot_detected = "True")
                    => e \in Range(retry_needed)

\* a query returns flagged from the missing input field while another entry
\* holds an input-not-found failure
C16_Witness ==
    /\ InQuery /\ q.pc = "returned" /\ q.site = "no_input" /\ q.raised_at = ""
    /\ q.was_bot_detected
    /\ \E e \in Pairs : cells[e].response = ERR_NO_INPUT /\ cells[e].bot_detected = "False"

\* C18: every call of query_chatbot eventually returns (or raises) and
\* run_evaluation eventually ends.
C18_EveryQueryReturns ==
    /\ (q.pc = "entry") ~> (q.pc \in {"returned", "raised"})
    /\ <>(pc \in {"done", "aborted"})


\* C17: a capture of a response that is exactly N scroll steps tall and
\* starts at the top of the viewport ends with exactly N screenshots.
C17_ExactlyNScreenshots ==
    cap.pc = "done" /\ cap.error = "" => cap.screenshots_taken = cap.n


\* C21: a recorded result with the defense flag set carries an error text,
\* never a captured answer, so that no retry round queries again an entry
\* that holds a valid response.
C21_FlaggedIsError ==
    /\ \A e \in Pairs :
         cells[e].bot_detected = "True" => StartsWith(cells[e].response, "ERROR")
    /\ pc \in {"retry_call", "in_retry"} =>
         LET e == retry_needed[retry_idx]
         IN ~(cells[e].present /\ ~StartsWith(cells[e].response, "ERROR"))


\* the fragment at the bottom of the viewport was seen in an earlier pass
FragmentRepeats(f) == f.i > 0 /\ LastVisible(f) \in f.seen
\* the end of the final text is in the visible text
TailVisible(f) == f.has_chunk /\ LastVisible(f) = (f.height \div f.para) - 1
\* the scroll of this pass leaves the position as it is
ScrollStuck(f) == Min(f.scroll + ScrollAmount, f.room) = f.scroll

\* the stop conditions as the claim lists them, for every target
ListedStop(f) ==
    \/ FragmentRepeats(f) \/ TailVisible(f)
    \/ IsAtEnd(f) \/ ContainerAtEnd(f)
    \/ ScrollStuck(f)

\* the same list with Gemini's exceptions
ListedStopByTarget(f) ==
    IF f.is_gemini
    THEN \/ FragmentRepeats(f) \/ ContainerAtEnd(f)
         \/ ~f.has_container /\ ScrollStuck(f)
    ELSE ListedStop(f)

C22_StepListed ==
    /\ cap.pc = "loop" /\ cap'.pc = "loop" => ~ListedStop(cap)
    /\ cap.pc = "loop" /\ cap'.pc = "done" /\ cap'.error = ""
         => ListedStop(cap) \/ cap.i + 1 = MAX_SCREENSHOTS

C22_StepByTarget ==
    /\ cap.pc = "loop" /\ cap'.pc = "loop" => ~ListedStopByTarget(cap)
    /\ cap.pc = "loop" /\ cap'.pc = "done" /\ cap'.error = ""
         => ListedStopByTarget(cap) \/ cap.i + 1 = MAX_SCREENSHOTS

C30_FallbackOnError ==
    /\ cap.pc \in {"done", "raised"} /\ cap.error # ""
         => cap.pc = "done" /\ cap.fallback = 1
    /\ cap.error = "" => cap.fallback = 0


RECURSIVE SumSeq(_)
SumSeq(s) == IF s = <<>> THEN 0 ELSE s[1] + SumSeq(Tail(s))

\* the seconds run_evaluation slept between the calls k and l of query_chatbot
RECURSIVE SleptBetween(_, _)
SleptBetween(k, l) ==
    IF k >= l THEN 0 ELSE SumSeq(emitted[l].slept) + SleptBetween(k, l - 1)

\* C23: in every pass two successive queries of one target are separated by
\* at least the delay between rows.
C23_SameTargetSpacing ==
    \A k, l \in 1..Len(emitted) :
        /\ k < l
        /\ emitted[k].chatbot = emitted[l].chatbot
        /\ emitted[k].round = emitted[l].round
        /\ \A j \in (k + 1)..(l - 1) : emitted[j].chatbot # emitted[k].chatbot
        => SleptBetween(k, l) >= DELAY_BETWEEN_PROMPTS


\* C25: in the primary pass the short delay is slept between two targets of
\* one row and nowhere else, the long delay between two rows and nowhere
\* else; the first query of every retry round comes after the cooldown.
C25_DelaysInPlace ==
    \A k \in 1..Len(emitted) :
        LET e == emitted[k]
        IN IF e.round = 0
           THEN IF k = 1 THEN e.slept = <<>>
                ELSE IF emitted[k - 1].row = e.row
                     THEN e.slept = <<DELAY_BETWEEN_CHATBOTS>>
                     ELSE e.slept = <<DELAY_BETWEEN_PROMPTS>>
           ELSE emitted[k - 1].round # e.round
                    => /\ e.slept # <<>>
                       /\ e.slept[Len(e.slept)] = RETRY_COOLDOWN

C25_Witness ==
    /\ Len(emitted) >= 4
    /\ emitted[2].round = 0 /\ emitted[2].row = emitted[1].row
    /\ emitted[3].round = 0 /\ emitted[3].row # emitted[2].row
    /\ \E k \in 4..Len(emitted) :
         emitted[k].round = 2 /\ emitted[k - 1].round = 1


\* C27: after every query the counters balance: the query has incremented
\* total_queries and exactly one of the three outcome counters.
C27_StatsBalance ==
    pc \notin {"in_query", "in_retry"}
        => stats.total_queries = stats.successful_responses
                                   + stats.bot_detections + stats.errors

\* the monitor handed text back and nothing raised afterwards
AnswerObserved == q.wait_ret.kind \in {"COMPLETE", "PARTIAL"} /\ q.raised_at = ""

C28_Step ==
    q.pc = "returned" /\ q'.pc = "none" =>
        /\ stats'.successful_responses = stats.successful_responses + 1
             <=> AnswerObserved /\ ~q.ret[3]
        /\ stats'.errors = stats.errors + 1
             <=> ~AnswerObserved /\ ~q.ret[3]

\* C28: a query counts as a successful response exactly when the monitor
\* returned text and no defense was detected, whatever the text; it counts as
\* an error exactly when no answer was observed.
C28_SuccessIffAnswerObserved == [][C28_Step]_vars

\* the error texts query_chatbot produces
ErrorTexts ==
    {ERR_BOT, ERR_BOT_SUBMIT, ERR_NO_INPUT, ERR_TIMEOUT, ERR_UNKNOWN_ERROR}
    \cup {ERR_UNKNOWN_CHATBOT(c) : c \in AllTargets}
    \cup {ERR_EXCEPTION(step) : step \in TrySteps}

\* C29: a returned result whose text is an error has no screenshots and a
\* latency of 0.
C29_ErrorHasNoArtifacts ==
    q.pc = "returned" /\ q.ret[1] \in ErrorTexts
        => q.ret[2] = <<>> /\ q.ret[4] = 0


\* the submit step of the query was carried out
SubmitIssued == \E i \in 1..Len(q.submits) : q.submits[i] \in {"click", "enter"}

\* C24: the detector runs after navigation, right after submission and
\* during the wait; when it is positive after navigation nothing is typed or
\* submitted, and when it is positive right after submission the monitor is
\* never started.
C24_DetectorPlacement ==
    /\ q.typed => q.checks # <<>> /\ q.checks[1] = "after_navigation"
    /\ q.pc \in {"wait", "hung"} \/ q.wait_ret # NoWait
         => /\ SubmitIssued
            /\ Len(q.checks) >= 2 /\ q.checks[2] = "after_submission"
    /\ q.wait_ret # NoWait => "during_wait" \in Range(q.checks)
    /\ q.site = "check1" => ~q.typed /\ q.submits = <<>>
    /\ q.site = "check2"
         => /\ q.wait_ret = NoWait
            /\ q.pc \notin {"wait", "hung", "check3", "capture", "validate"}
            /\ q.checks = <<"after_navigation", "after_submission">>

C24_Witness ==
    /\ q.pc = "returned" /\ q.site = "check2"
    /\ q.typed /\ SubmitIssued
    /\ q.ret[3]


\* the file that holds the first n rows as they are in memory
WholeFile(n) ==
    [n |-> n,
     cells |-> [e \in (1..NumRows) \X AllTargets |->
                   IF e[1] <= n THEN cells[e] ELSE NoCell],
     failed |-> FALSE]

\* C26: for a non-empty row list save_results opens the primary file at most
\* three times, writes the alternate file at most once and only after three
\* locked attempts, and in every case returns the path of the file that holds
\* the rows.
C26_BoundedRetryThenFallback ==
    /\ sv.opens <= 3
    /\ sv.alt_writes <= 1
    /\ sv.pc = "fallback" \/ sv.alt_writes = 1 => sv.opens = 3
    /\ sv.n > 0 /\ sv.pc \in {"returned", "raised"}
         => /\ sv.pc = "returned"
            /\ sv.ret = "primary" => saved = WholeFile(sv.n) /\ sv.alt_writes = 0
            /\ sv.ret = "alternate" => sv.alt = WholeFile(sv.n)

====
